---------------------------- MODULE Spec2Model ----------------------------
(***************************************************************************)
(* A model of the collision code of BlobDemo.cpp:                          *)
(*   - Platform::addContact      (particle against line segment contacts)  *)
(*   - BlobDemo::handleBlobCollision (pairwise elastic impulse resolution)  *)
(*                                                                         *)
(* Numbers.  The program computes in `float`.  The model computes the same *)
(* expressions, in the same order, in exact arithmetic: a scalar is a     *)
(* value q * sqrt(r) with q a fraction and r a square-free positive        *)
(* integer (r = 1 for a fraction), which is closed under every operation   *)
(* the two functions perform on the inputs drawn here (small integers, for *)
(* which float +, -, * are exact too).  A NaN (0/0) is a scalar with a     *)
(* zero denominator; it propagates through arithmetic and makes every     *)
(* comparison false, as in IEEE 754.                                       *)
(***************************************************************************)
EXTENDS Integers, Sequences, FiniteSets, TLC

(***************************************************************************)
(* Fractions: [n |-> numerator, d |-> denominator], d > 0, in lowest       *)
(* terms; d = 0 is NaN.                                                    *)
(***************************************************************************)
Abs(i) == IF i < 0 THEN -i ELSE i

RECURSIVE GCD(_, _)
GCD(a, b) == IF b = 0 THEN a ELSE GCD(b, a % b)

NaNQ == [n |-> 0, d |-> 0]

Q(n, d) ==
    IF d = 0 THEN NaNQ
    ELSE IF d = 1 THEN [n |-> n, d |-> 1]
    ELSE LET s == IF d < 0 THEN -1 ELSE 1
             g == GCD(Abs(n), Abs(d))
         IN  [n |-> (s * n) \div g, d |-> (s * d) \div g]

QInt(i) == [n |-> i, d |-> 1]
QIsNaN(a) == a.d = 0
QAdd(a, b) == IF QIsNaN(a) \/ QIsNaN(b) THEN NaNQ ELSE Q(a.n * b.d + b.n * a.d, a.d * b.d)
QNeg(a) == IF QIsNaN(a) THEN NaNQ ELSE [n |-> -a.n, d |-> a.d]
QMul(a, b) == IF QIsNaN(a) \/ QIsNaN(b) THEN NaNQ ELSE Q(a.n * b.n, a.d * b.d)
\* a / b; the only division by zero the modelled code can perform is 0/0 (NaN)
QDiv(a, b) == IF QIsNaN(a) \/ QIsNaN(b) THEN NaNQ ELSE Q(a.n * b.d, a.d * b.n)
QLt(a, b) == ~QIsNaN(a) /\ ~QIsNaN(b) /\ a.n * b.d < b.n * a.d
QSign(a) == IF a.n > 0 THEN 1 ELSE IF a.n < 0 THEN -1 ELSE 0

(***************************************************************************)
(* Scalars ("float"): [q |-> fraction, r |-> root] denotes q * sqrt(r).    *)
(***************************************************************************)
\* the largest k with k*k dividing m (m >= 1)
SquarePart(m) ==
    LET ks == {k \in 1..m : k * k <= m /\ m % (k * k) = 0}
    IN  CHOOSE k \in ks : \A j \in ks : j <= k

F(q, r) ==
    IF QIsNaN(q) THEN [q |-> NaNQ, r |-> 1]
    ELSE IF q.n = 0 THEN [q |-> QInt(0), r |-> 1]
    ELSE IF r = 1 THEN [q |-> q, r |-> 1]
    ELSE LET k == SquarePart(r)
         IN  [q |-> QMul(q, QInt(k)), r |-> r \div (k * k)]

FInt(i) == [q |-> QInt(i), r |-> 1]
FZero == FInt(0)
FNaN == [q |-> NaNQ, r |-> 1]
FIsNaN(a) == QIsNaN(a.q)
FIsZero(a) == ~FIsNaN(a) /\ a.q.n = 0

FNeg(a) == [q |-> QNeg(a.q), r |-> a.r]
FMul(a, b) ==
    IF a.r = b.r THEN F(QMul(QMul(a.q, b.q), QInt(a.r)), 1)
    ELSE F(QMul(a.q, b.q), a.r * b.r)
\* 1 / (q sqrt r) = sqrt r / (q r)
FInv(a) == F(QDiv(QInt(1), QMul(a.q, QInt(a.r))), a.r)
FDiv(a, b) == FMul(a, FInv(b))
\* a sum is formed only of terms with a common root (or a zero, or a NaN)
FAdd(a, b) ==
    CASE FIsNaN(a) \/ FIsNaN(b) -> FNaN
      [] FIsZero(a) -> b
      [] FIsZero(b) -> a
      [] a.r = b.r -> F(QAdd(a.q, b.q), a.r)
FSub(a, b) == FAdd(a, FNeg(b))
\* x |-> sign(x) * x^2 is strictly increasing, and is a fraction
SignedSquare(a) == QMul(QInt(QSign(a.q) * a.r), QMul(a.q, a.q))
FLt(a, b) == ~FIsNaN(a) /\ ~FIsNaN(b) /\ QLt(SignedSquare(a), SignedSquare(b))
FGt(a, b) == FLt(b, a)
FLe(a, b) == ~FIsNaN(a) /\ ~FIsNaN(b) /\ ~QLt(SignedSquare(b), SignedSquare(a))
FGe(a, b) == FLe(b, a)
\* sqrt of a non-negative fraction n/d = sqrt(n*d) / d
FSqrt(a) ==
    IF FIsNaN(a) \/ a.r # 1 \/ a.q.n < 0 THEN FNaN
    ELSE IF a.q.n = 0 THEN FZero
    ELSE F(Q(1, a.q.d), a.q.n * a.q.d)

(***************************************************************************)
(* Vector2 (coreMath.h): [x, y] of scalars.                                *)
(***************************************************************************)
Vec(x, y) == [x |-> FInt(x), y |-> FInt(y)]
ZeroVec == Vec(0, 0)
NaNVec == [x |-> FNaN, y |-> FNaN]
VAdd(a, b) == [x |-> FAdd(a.x, b.x), y |-> FAdd(a.y, b.y)]
VSub(a, b) == [x |-> FSub(a.x, b.x), y |-> FSub(a.y, b.y)]
VScale(a, k) == [x |-> FMul(a.x, k), y |-> FMul(a.y, k)]
VDot(a, b) == FAdd(FMul(a.x, b.x), FMul(a.y, b.y))
squareMagnitude(a) == VDot(a, a)
magnitude(a) == FSqrt(squareMagnitude(a))
\* unit() of the zero vector is not defined by the program: a guarded
\* normalise leaves the zero vector, an unguarded one divides 0 by 0.
unit(a) ==
    IF FIsZero(magnitude(a)) THEN {ZeroVec, NaNVec}
    ELSE {VScale(a, FInv(magnitude(a)))}
IsUnitLength(a) == squareMagnitude(a) = FInt(1)


(***************************************************************************)
(* Bounds of the model and the inputs drawn from them.                     *)
(***************************************************************************)
\* particles registered with the platform under test
NumParticles == 2
\* the largest contact limit handed to addContact
MaxLimit == 2
\* blobs of the demo (BLOB_COUNT in the program, scaled down)
NumBlobs == 3

\* Segments: platforms[0] of the demo, a horizontal and a diagonal platform,
\* a reversed one, and a degenerate platform whose start and end coincide.
Segments ==
    { <<Vec(0, 0), Vec(0, -50)>>,
      <<Vec(0, 0), Vec(2, 0)>>,
      <<Vec(0, 0), Vec(2, 2)>>,
      <<Vec(1, -1), Vec(-1, -1)>>,
      <<Vec(1, 1), Vec(1, 1)>> }

\* Platform particles, as <<position, radius>>: centres on a segment, on an
\* endpoint, exactly one radius away, within a radius, and far away.
ContactParticles ==
    { <<Vec(0, 0), 1>>, <<Vec(0, -1), 3>>, <<Vec(1, -1), 1>>, <<Vec(1, 1), 1>>,
      <<Vec(3, 1), 3>>, <<Vec(3, 3), 1>>, <<Vec(-1, 0), 1>>, <<Vec(1, 0), 3>>,
      <<Vec(2, 0), 1>>, <<Vec(-1, -2), 3>> }

\* Blob inputs, as <<position, velocity, radius>>.  The centres give
\* overlapping pairs along an axis ((1,1), (2,1)) and along a diagonal
\* ((0,0), (1,1)), a pair exactly one combined radius apart ((2,1), (4,1)),
\* pairs further apart, and coincident centres; the velocities make such
\* pairs approach head-on, approach obliquely, or separate.
BlobStates ==
    { <<Vec(0, 0), Vec(1, 1), 1>>,  <<Vec(0, 0), Vec(-1, -1), 1>>,
      <<Vec(1, 1), Vec(-1, -1), 1>>, <<Vec(1, 1), Vec(1, 0), 1>>,
      <<Vec(2, 1), Vec(-1, 0), 1>>, <<Vec(2, 1), Vec(1, 1), 1>>,
      <<Vec(4, 1), Vec(-1, 0), 1>> }
\* Masses <<light, heavy>>: all blobs are light, or exactly one is heavy.
BlobMasses == <<1, 2>>
HeavyChoices == 0..NumBlobs

VARIABLES
    start,      \* Platform::start
    end,        \* Platform::end
    particles,  \* Platform::particles: sequence of particle records
    limit,      \* addContact's parameter
    contact,    \* the caller's buffer: index (from 0) -> contact written there
    used,       \* addContact's counter (also the offset of the contact pointer)
    idx,        \* position of the range-for loop in particles (from 1)
    branch,     \* which arm of the if / else-if / else handled each particle so far
    ret,        \* addContact's return value
    blobs,      \* BlobDemo::blobs: sequence of particle records
    blobs0,     \* blobs as they were when handleBlobCollision was called
    i,          \* outer loop index of handleBlobCollision (from 0)
    j,          \* inner loop index of handleBlobCollision
    examined,   \* the pairs whose loop body has run, in order, each with the
                \* path the body took: [i, j, path]
    pc          \* where control is

vars == <<start, end, particles, limit, contact, used, idx, branch, ret,
          blobs, blobs0, i, j, examined, pc>>

contactVars == <<start, end, particles, limit, contact, used, idx, branch, ret>>
blobVars == <<blobs, blobs0, i, j, examined>>

\* Particle (particle.h): the fields the two functions read and write
Particle(pos, vel, radius, mass) ==
    [position |-> pos, velocity |-> vel, radius |-> FInt(radius), mass |-> FInt(mass)]

(***************************************************************************)
(* Platform::addContact                                                    *)
(***************************************************************************)
restitution == FInt(1)

toParticle(p) == VSub(p.position, start)
lineDirection == VSub(end, start)
projected(p) == VDot(toParticle(p), lineDirection)
platformSqLength == squareMagnitude(lineDirection)
squareRadius(p) == FMul(p.radius, p.radius)

\* mutant: the limit test off by one
LimitReachedOffByOne(u, l) == u > l

\* `if (used >= limit) return used;`
LimitReached(u, l) == u >= l

\* mutant: a particle projecting exactly onto the start is not taken here
NearStartStrict(p) == FLt(projected(p), FZero)

\* `if (projected <= 0)`
NearStart(p) == FLe(projected(p), FZero)
\* `else if (projected >= platformSqLength)`
NearEnd(p) == ~NearStart(p) /\ FGe(projected(p), platformSqLength)
\* `else`
Between(p) == ~NearStart(p) /\ ~FGe(projected(p), platformSqLength)

\* mutant: toParticle is not re-based on the end point
toParticleEndNotRebased(p) == toParticle(p)

toParticleEnd(p) == VSub(p.position, end)
\* mutant: the squared projection is not divided by the squared length
distanceToPlatformUndivided(p) ==
    FSub(squareMagnitude(toParticle(p)), FMul(projected(p), projected(p)))

distanceToPlatform(p) ==
    FSub(squareMagnitude(toParticle(p)),
         FDiv(FMul(projected(p), projected(p)), platformSqLength))
closestPoint(p) ==
    VAdd(start, VScale(lineDirection, FDiv(projected(p), platformSqLength)))

\* `radius - distance`, kept as its two terms (their roots differ in general)
Penetration(radius, dist) == [radius |-> radius, distance |-> dist]

\* the contact written through the `contact` pointer
ContactRecord(normal, k, pen) ==
    [contactNormal |-> normal, restitution |-> restitution,
     particle0 |-> k, particle1 |-> "nullptr", penetration |-> pen]

\* the write `contact->... = ...; used++; contact++;`
Emit(normal, k, pen) ==
    /\ contact' = (used :> ContactRecord(normal, k, pen)) @@ contact
    /\ used' = used + 1

NoEmit == UNCHANGED <<contact, used>>

Advance(label) ==
    /\ idx' = idx + 1
    /\ branch' = Append(branch, label)
    /\ UNCHANGED <<start, end, particles, limit, ret, pc>>
    /\ UNCHANGED blobVars

InLoop == pc = "addContact" /\ idx <= Len(particles)

\* line 38: the limit is reached before the next particle is looked at
ReturnAtLimit ==
    /\ InLoop
    /\ LimitReached(used, limit)
    /\ pc' = "returned"
    /\ ret' = used
    /\ UNCHANGED <<start, end, particles, limit, contact, used, idx, branch>>
    /\ UNCHANGED blobVars

\* lines 48-60
StartPoint ==
    /\ InLoop
    /\ ~LimitReached(used, limit)
    /\ LET p == particles[idx] IN
       /\ NearStart(p)
       /\ IF FLt(squareMagnitude(toParticle(p)), squareRadius(p))
          THEN \E n \in unit(toParticle(p)) :
                   Emit(n, idx, Penetration(p.radius, magnitude(toParticle(p))))
          ELSE NoEmit
    /\ Advance("start")

\* lines 62-75
EndPoint ==
    /\ InLoop
    /\ ~LimitReached(used, limit)
    /\ LET p == particles[idx] IN
       /\ NearEnd(p)
       /\ IF FLt(squareMagnitude(toParticleEnd(p)), squareRadius(p))
          THEN \E n \in unit(toParticleEnd(p)) :
                   Emit(n, idx, Penetration(p.radius, magnitude(toParticleEnd(p))))
          ELSE NoEmit
    /\ Advance("end")

\* lines 77-91
Interior ==
    /\ InLoop
    /\ ~LimitReached(used, limit)
    /\ LET p == particles[idx] IN
       /\ Between(p)
       /\ IF FLt(distanceToPlatform(p), squareRadius(p))
          THEN \E n \in unit(VSub(p.position, closestPoint(p))) :
                   Emit(n, idx, Penetration(p.radius, FSqrt(distanceToPlatform(p))))
          ELSE NoEmit
    /\ Advance("interior")

\* line 93: the loop ran over every particle
ReturnAtEnd ==
    /\ pc = "addContact"
    /\ idx > Len(particles)
    /\ pc' = "returned"
    /\ ret' = used
    /\ UNCHANGED <<start, end, particles, limit, contact, used, idx, branch>>
    /\ UNCHANGED blobVars

NoBlobs == <<>>

InitContact ==
    /\ \E s \in Segments : start = s[1] /\ end = s[2]
    /\ \E n \in 1..NumParticles :
           particles \in [1..n ->
               {Particle(c[1], Vec(0, -10), c[2], 100) : c \in ContactParticles}]
    /\ limit \in 0..MaxLimit
    /\ contact = <<>>
    /\ used = 0
    /\ idx = 1
    /\ branch = <<>>
    /\ ret = 0
    /\ blobs = NoBlobs /\ blobs0 = NoBlobs
    /\ i = 0 /\ j = 0 /\ examined = <<>>
    /\ pc = "addContact"

NextContact ==
    \/ ReturnAtLimit
    \/ StartPoint
    \/ EndPoint
    \/ Interior
    \/ ReturnAtEnd

SpecContact == InitContact /\ [][NextContact]_vars


(***************************************************************************)
(* Claims about Platform::addContact (checked under SpecContact).          *)
(***************************************************************************)
HasContact(k) == \E c \in DOMAIN contact : contact[c].particle0 = k
Returned == pc = "returned"
ZeroLength == start = end

\* C1: addContact returns a count used <= limit and <= number of particles,
\* writes exactly `used` records, at buffer indexes 0 .. used-1 (so never at
\* an index >= limit), and returns 0 when limit = 0.
C1_LimitRespected ==
    /\ used <= limit
    /\ used <= Len(particles)
    /\ DOMAIN contact = 0..(used - 1)
    /\ \A c \in DOMAIN contact : c < limit
    /\ Returned => /\ ret = used
                   /\ limit = 0 => ret = 0 /\ DOMAIN contact = {}

\* the call stopped at the limit with an overlapping particle still unexamined
C1_Witness ==
    /\ Returned /\ limit = 1 /\ ret = 1
    /\ Len(particles) = 2 /\ idx = 2
    /\ FLt(squareMagnitude(toParticle(particles[2])), squareRadius(particles[2]))

\* Squared distance from the particle centre to the closest point of the
\* segment, by the geometry and not by the code's case split: the foot of the
\* perpendicular lies on the segment iff neither angle at an endpoint is
\* obtuse, and then the squared distance is cross^2 / |dir|^2; otherwise the
\* nearer endpoint is the closest point.
Cross(a, b) == FSub(FMul(a.x, b.y), FMul(a.y, b.x))
FMin(a, b) == IF FLt(b, a) THEN b ELSE a
SqDistToSegment(p) ==
    LET fromStart == VSub(p.position, start)
        fromEnd == VSub(p.position, end)
        dir == VSub(end, start)
    IN  IF FGe(VDot(fromStart, dir), FZero) /\ FGe(VDot(fromEnd, VSub(start, end)), FZero)
        THEN FDiv(FMul(Cross(fromStart, dir), Cross(fromStart, dir)), squareMagnitude(dir))
        ELSE FMin(squareMagnitude(fromStart), squareMagnitude(fromEnd))
Overlapping == {k \in 1..Len(particles) : FLt(SqDistToSegment(particles[k]), squareRadius(particles[k]))}

\* C2: for a segment of non-zero length and a limit >= the number of
\* particles, a particle has a contact iff its centre is closer than its
\* radius to the closest point of the segment; there is one contact per such
\* particle, in the particles' order, each naming its particle as particle[0]
\* with particle[1] null.
C2_ContactIffOverlap ==
    (Returned /\ ~ZeroLength /\ limit >= Len(particles)) =>
        /\ \A k \in 1..Len(particles) : HasContact(k) <=> k \in Overlapping
        /\ ret = Cardinality(Overlapping)
        /\ \A c \in DOMAIN contact :
               /\ contact[c].particle1 = "nullptr"
               /\ contact[c].particle0 \in Overlapping
               /\ \A b \in DOMAIN contact : b < c => contact[b].particle0 < contact[c].particle0

\* one particle touches the segment, another is too far from every point of it
C2_Witness ==
    /\ Returned /\ ~ZeroLength /\ limit >= Len(particles)
    /\ Len(particles) = 2
    /\ branch = <<"end", "interior">>
    /\ HasContact(2) /\ ~HasContact(1)

\* the scenario of C3: platforms[0] and one particle of radius 3 at (0, -1)
C3_Scenario ==
    /\ start = Vec(0, 0) /\ end = Vec(0, -50)
    /\ particles = <<Particle(Vec(0, -1), Vec(0, -10), 3, 100)>>
    /\ limit >= 1
    /\ Returned
\* penetration = radius - distance equals k
PenetrationIs(pen, k) == pen.distance = FSub(pen.radius, FInt(k))

C4_UnitNormals ==
    \A c \in DOMAIN contact : IsUnitLength(contact[c].contactNormal)

\* C9: the interior branch (the only one that divides by platformSqLength)
\* runs only when platformSqLength > 0; for a zero-length segment every
\* particle is handled by the start branch, and has a contact exactly when
\* its centre is closer than its radius to that point.
C9_ZeroLengthIsPoint ==
    /\ (\E k \in 1..Len(branch) : branch[k] = "interior") => FGt(platformSqLength, FZero)
    /\ ZeroLength =>
           \A k \in 1..Len(branch) :
               /\ branch[k] = "start"
               /\ HasContact(k) <=>
                      FLt(squareMagnitude(VSub(particles[k].position, start)),
                          squareRadius(particles[k]))

\* a zero-length segment, one particle within its radius of the point, one not
C9_Witness ==
    /\ Returned /\ ZeroLength
    /\ Len(branch) = 2
    /\ HasContact(1) /\ ~HasContact(2)


(***************************************************************************)
(* BlobDemo::handleBlobCollision                                           *)
(***************************************************************************)
BLOB_COUNT == NumBlobs

\* blobs[k] of the program (indexes from 0)
Blob(bs, k) == bs[k + 1]

distanceVec(bs, a, b) == VSub(Blob(bs, b).position, Blob(bs, a).position)
distance(bs, a, b) == magnitude(distanceVec(bs, a, b))
combinedRadius(bs, a, b) == FAdd(Blob(bs, a).radius, Blob(bs, b).radius)
\* mutant: circles that only touch count as colliding
CollidingOrTouching(bs, a, b) == FLe(distance(bs, a, b), combinedRadius(bs, a, b))

\* `if (distance < combinedRadius)`
Colliding(bs, a, b) == FLt(distance(bs, a, b), combinedRadius(bs, a, b))
relativeVelocity(bs, a, b) == VSub(Blob(bs, b).velocity, Blob(bs, a).velocity)
velocityAlongNormal(bs, a, b, normal) == VDot(relativeVelocity(bs, a, b), normal)
\* mutant: the sign of the separation test is flipped
MovingApartFlipped(van) == FLt(van, FZero)

\* `if (velocityAlongNormal > 0) continue;`
MovingApart(van) == FGt(van, FZero)
\* mutant: a perfectly inelastic coefficient
eInelastic == FInt(0)

e == FInt(1)
impulse(van, m1, m2) ==
    FDiv(FMul(FNeg(FAdd(FInt(1), e)), van),
         FAdd(FDiv(FInt(1), m1), FDiv(FInt(1), m2)))
impulseVec(normal, van, m1, m2) == VScale(normal, impulse(van, m1, m2))
\* `blobs[i]->getVelocity() - (impulseVec * (1.0f / m1))`
VelocityI(v, iv, m1) == VSub(v, VScale(iv, FDiv(FInt(1), m1)))
\* mutant: the impulse is subtracted from blob j as it is from blob i
VelocityJSubtracts(v, iv, m2) == VSub(v, VScale(iv, FDiv(FInt(1), m2)))

\* `blobs[j]->getVelocity() + (impulseVec * (1.0f / m2))`
VelocityJ(v, iv, m2) == VAdd(v, VScale(iv, FDiv(FInt(1), m2)))

\* mutant: the impulse is computed from the velocities at the start of the call
ApplyImpulseFromStart(bs, a, b, normal) ==
    LET m1 == Blob(bs, a).mass
        m2 == Blob(bs, b).mass
        iv == impulseVec(normal, velocityAlongNormal(blobs0, a, b, normal), m1, m2)
    IN  [bs EXCEPT ![a + 1].velocity = VSub(@, VScale(iv, FDiv(FInt(1), m1))),
                   ![b + 1].velocity = VAdd(@, VScale(iv, FDiv(FInt(1), m2)))]

\* lines 278-288: the blobs after the impulse of pair (a, b) along normal
ApplyImpulse(bs, a, b, normal) ==
    LET m1 == Blob(bs, a).mass
        m2 == Blob(bs, b).mass
        iv == impulseVec(normal, velocityAlongNormal(bs, a, b, normal), m1, m2)
    IN  [bs EXCEPT ![a + 1].velocity = VelocityI(@, iv, m1),
                   ![b + 1].velocity = VelocityJ(@, iv, m2)]

\* `i < BLOB_COUNT - 1`
OuterLoopRuns(a) == a < BLOB_COUNT - 1
\* `j < BLOB_COUNT`
InnerLoopRuns(b) == b < BLOB_COUNT
\* j++, and when the inner loop ends, i++ and j = i + 1
NextPair(a, b) ==
    IF InnerLoopRuns(b + 1) THEN <<a, b + 1>> ELSE <<a + 1, a + 2>>

InBody == pc = "handleBlobCollision" /\ OuterLoopRuns(i) /\ InnerLoopRuns(j)

Step(path) ==
    /\ i' = NextPair(i, j)[1]
    /\ j' = NextPair(i, j)[2]
    /\ examined' = Append(examined, [i |-> i, j |-> j, path |-> path])
    /\ UNCHANGED <<blobs0, pc>>
    /\ UNCHANGED contactVars

\* line 270 false: the circles do not overlap
NoCollision ==
    /\ InBody
    /\ ~Colliding(blobs, i, j)
    /\ UNCHANGED blobs
    /\ Step("apart")

\* line 276: overlapping, but already separating
Separating ==
    /\ InBody
    /\ Colliding(blobs, i, j)
    /\ \E normal \in unit(distanceVec(blobs, i, j)) :
           MovingApart(velocityAlongNormal(blobs, i, j, normal))
    /\ UNCHANGED blobs
    /\ Step("separating")

\* lines 278-288: overlapping and not separating
Impulse ==
    /\ InBody
    /\ Colliding(blobs, i, j)
    /\ \E normal \in unit(distanceVec(blobs, i, j)) :
           /\ ~MovingApart(velocityAlongNormal(blobs, i, j, normal))
           /\ blobs' = ApplyImpulse(blobs, i, j, normal)
    /\ Step("impulse")

\* the outer loop has ended
Finish ==
    /\ pc = "handleBlobCollision"
    /\ ~OuterLoopRuns(i)
    /\ pc' = "resolved"
    /\ UNCHANGED <<blobs, blobs0, i, j, examined>>
    /\ UNCHANGED contactVars

InitBlob ==
    /\ \E heavy \in HeavyChoices :
         \E st \in [1..NumBlobs -> BlobStates] :
             blobs = [k \in 1..NumBlobs |->
                        Particle(st[k][1], st[k][2], st[k][3],
                                 IF k = heavy THEN BlobMasses[2] ELSE BlobMasses[1])]
    /\ blobs0 = blobs
    /\ i = 0 /\ j = 1
    /\ examined = <<>>
    /\ pc = "handleBlobCollision"
    /\ start = ZeroVec /\ end = ZeroVec /\ particles = <<>> /\ limit = 0
    /\ contact = <<>> /\ used = 0 /\ idx = 1 /\ branch = <<>> /\ ret = 0

NextBlob ==
    \/ NoCollision
    \/ Separating
    \/ Impulse
    \/ Finish

SpecBlob == InitBlob /\ [][NextBlob]_vars


(***************************************************************************)
(* Claims about BlobDemo::handleBlobCollision (checked under SpecBlob).    *)
(* The geometry of a pair is stated here without sqrt or normalisation:    *)
(* squared lengths, and the relative velocity along the un-normalised      *)
(* vector between the centres (of the same sign as along the normal).      *)
(***************************************************************************)
Resolved == pc = "resolved"
BlobIndexes == 0..(NumBlobs - 1)
Centre(bs, a) == Blob(bs, a).position
Between2(bs, a, b) == VSub(Centre(bs, b), Centre(bs, a))
Overlap(bs, a, b) ==
    LET rsum == FAdd(Blob(bs, a).radius, Blob(bs, b).radius)
    IN  FLt(squareMagnitude(Between2(bs, a, b)), FMul(rsum, rsum))
ClosingDot(bs, a, b) ==
    VDot(VSub(Blob(bs, b).velocity, Blob(bs, a).velocity), Between2(bs, a, b))
CentresDistinct(bs) ==
    \A a, b \in BlobIndexes : a # b => Centre(bs, a) # Centre(bs, b)
LastExamined == examined[Len(examined)]

\* C5: processing a pair whose circles overlap and whose relative velocity
\* along the normal from i to j is positive leaves both velocities unchanged.
C5_SeparatingUntouched ==
    [][ (InBody /\ Overlap(blobs, i, j) /\ FGt(ClosingDot(blobs, i, j), FZero)) =>
            /\ Blob(blobs', i).velocity = Blob(blobs, i).velocity
            /\ Blob(blobs', j).velocity = Blob(blobs, j).velocity ]_vars

\* the pair just processed overlaps and was (and so still is) separating
C5_Witness ==
    /\ Len(examined) >= 1
    /\ LastExamined.path = "separating"
    /\ Overlap(blobs, LastExamined.i, LastExamined.j)
    /\ FGt(ClosingDot(blobs, LastExamined.i, LastExamined.j), FZero)

\* at the call: a and b overlap, have equal mass and opposite velocities along
\* the line joining their centres, approach, and overlap no other blob
HeadOn(a, b) ==
    /\ Overlap(blobs0, a, b)
    /\ Blob(blobs0, a).mass = Blob(blobs0, b).mass
    /\ VAdd(Blob(blobs0, a).velocity, Blob(blobs0, b).velocity) = ZeroVec
    /\ Cross(Blob(blobs0, a).velocity, Between2(blobs0, a, b)) = FZero
    /\ FLt(ClosingDot(blobs0, a, b), FZero)
    /\ \A c \in BlobIndexes \ {a, b} : ~Overlap(blobs0, a, c) /\ ~Overlap(blobs0, b, c)

\* C6: two overlapping blobs of equal mass approaching head-on, overlapping
\* no other blob, end the call with their velocities exchanged.
C6_HeadOnSwap ==
    Resolved =>
        \A a, b \in BlobIndexes :
            (a < b /\ HeadOn(a, b)) =>
                /\ Blob(blobs, a).velocity = Blob(blobs0, b).velocity
                /\ Blob(blobs, b).velocity = Blob(blobs0, a).velocity

\* a head-on pair along a diagonal (the normal has irrational components)
C6_Witness ==
    /\ Resolved
    /\ \E a, b \in BlobIndexes :
           /\ a < b /\ HeadOn(a, b)
           /\ ~FIsZero(Between2(blobs0, a, b).x) /\ ~FIsZero(Between2(blobs0, a, b).y)
           /\ Blob(blobs, a).velocity # Blob(blobs0, a).velocity

NoOverlap(bs) == \A a, b \in BlobIndexes : a < b => ~Overlap(bs, a, b)

\* C7: no step of handleBlobCollision changes a position, radius or mass; a
\* velocity changes only for a member of the pair being examined, and only if
\* that pair overlaps and is not separating at that moment; when no two
\* circles overlap the blobs are the same after the call as before it.
C7_Frame ==
    /\ [][ /\ \A k \in BlobIndexes :
                /\ Blob(blobs', k).position = Blob(blobs, k).position
                /\ Blob(blobs', k).radius = Blob(blobs, k).radius
                /\ Blob(blobs', k).mass = Blob(blobs, k).mass
                /\ Blob(blobs', k).velocity # Blob(blobs, k).velocity =>
                       /\ InBody /\ k \in {i, j}
                       /\ Overlap(blobs, i, j)
                       /\ ~FGt(ClosingDot(blobs, i, j), FZero)
           /\ NoOverlap(blobs) => blobs' = blobs ]_vars
    /\ [](NoOverlap(blobs0) => blobs = blobs0)

\* one call changed some velocity, and left alone a blob whose overlapping
\* pair was separating
C7_Witness ==
    /\ Resolved
    /\ \E k \in BlobIndexes : Blob(blobs, k).velocity # Blob(blobs0, k).velocity
    /\ \E n \in 1..Len(examined) :
           /\ examined[n].path = "separating"
           /\ Blob(blobs, examined[n].i).velocity = Blob(blobs0, examined[n].i).velocity

\* The unordered pairs, and their order i ascending then j ascending.
Pairs == {p \in BlobIndexes \X BlobIndexes : p[1] < p[2]}
LexLt(p, q) == p[1] < q[1] \/ (p[1] = q[1] /\ p[2] < q[2])
Rank(p) == Cardinality({q \in Pairs : LexLt(q, p)}) + 1
SortedPairs == [n \in 1..Cardinality(Pairs) |-> CHOOSE p \in Pairs : Rank(p) = n]

\* The elastic impulse of one pair in closed form (no sqrt): with d the
\* vector between the centres and rel the relative velocity,
\*   v_a += d * 2 m_b (rel.d) / (|d|^2 (m_a + m_b))
\*   v_b -= d * 2 m_a (rel.d) / (|d|^2 (m_a + m_b))
\* when the pair overlaps and is not separating.  For coincident centres the
\* program's normal is unit() of the zero vector: the velocities stay, or
\* both become NaN.
RefPair(bs, p) ==
    LET a == p[1]
        b == p[2]
        d == Between2(bs, a, b)
        ma == Blob(bs, a).mass
        mb == Blob(bs, b).mass
        k == FDiv(FMul(FInt(2), ClosingDot(bs, a, b)),
                  FMul(squareMagnitude(d), FAdd(ma, mb)))
    IN  IF d = ZeroVec
        THEN {bs, [bs EXCEPT ![a + 1].velocity = NaNVec, ![b + 1].velocity = NaNVec]}
        ELSE IF Overlap(bs, a, b) /\ ~FGt(ClosingDot(bs, a, b), FZero)
        THEN {[bs EXCEPT ![a + 1].velocity = VAdd(@, VScale(d, FMul(k, mb))),
                         ![b + 1].velocity = VSub(@, VScale(d, FMul(k, ma)))]}
        ELSE {bs}

\* the possible blobs after the first n pairs, each pair applied to the
\* result of the pairs before it
RECURSIVE RefResults(_)
RefResults(n) ==
    IF n = 0 THEN {blobs0}
    ELSE UNION {RefPair(bs, SortedPairs[n]) : bs \in RefResults(n - 1)}

\* C8: the pairs are examined once each in the order i ascending, then j
\* ascending, and the velocities after the call are those of applying the
\* pair updates one after the other in that order, each to the result of the
\* one before.
C8_SequentialOrder ==
    /\ Len(examined) <= Cardinality(Pairs)
    /\ \A n \in 1..Len(examined) : <<examined[n].i, examined[n].j>> = SortedPairs[n]
    /\ Resolved => /\ Len(examined) = Cardinality(Pairs)
                   /\ blobs \in RefResults(Cardinality(Pairs))

\* one blob received an impulse from each of two others
C8_Witness ==
    /\ Resolved /\ CentresDistinct(blobs0)
    /\ \E m, n \in 1..Len(examined) :
           /\ m < n
           /\ examined[m].path = "impulse" /\ examined[n].path = "impulse"
           /\ {examined[m].i, examined[m].j} \cap {examined[n].i, examined[n].j} # {}
           /\ \A k \in {examined[n].i, examined[n].j} :
                  Blob(blobs, k).velocity # Blob(blobs0, k).velocity

RECURSIVE MomentumUpTo(_, _)
MomentumUpTo(bs, n) ==
    IF n = 0 THEN ZeroVec
    ELSE VAdd(MomentumUpTo(bs, n - 1), VScale(bs[n].velocity, bs[n].mass))
Momentum(bs) == MomentumUpTo(bs, Len(bs))
PairMomentum(bs, a, b) ==
    VAdd(VScale(Blob(bs, a).velocity, Blob(bs, a).mass),
         VScale(Blob(bs, b).velocity, Blob(bs, b).mass))

\* C10: with distinct centres, processing a pair leaves m_i v_i + m_j v_j
\* unchanged, and the sum of mass * velocity over all blobs is at every
\* moment of the call what it was at its start.
C10_MomentumConserved ==
    /\ [][ (InBody /\ CentresDistinct(blobs)) =>
               PairMomentum(blobs', i, j) = PairMomentum(blobs, i, j) ]_vars
    /\ [](CentresDistinct(blobs0) => Momentum(blobs) = Momentum(blobs0))

\* an impulse was exchanged between blobs of different mass
C10_Witness ==
    /\ Resolved /\ CentresDistinct(blobs0)
    /\ \E n \in 1..Len(examined) :
           /\ examined[n].path = "impulse"
           /\ Blob(blobs0, examined[n].i).mass # Blob(blobs0, examined[n].j).mass
           /\ Blob(blobs, examined[n].i).velocity # Blob(blobs0, examined[n].i).velocity

=============================================================================
